---- MODULE Spec2Model ----
(***************************************************************************)
(* System Health Checker (scripts/python/system_health_checker.py).        *)
(*                                                                         *)
(* The model follows the class SystemHealthChecker and the script's main:  *)
(* the metrics provider (psutil, platform) is the environment, its answers *)
(* are the inputs of the actions; health_data is the checker's one         *)
(* OrderedDict; stdout and file are what the program prints and exports.   *)
(* Percentages are whole percents.                                         *)
(***************************************************************************)
EXTENDS Integers, Sequences, FiniteSets, TLC

\* ---------------------------------------------------------------- bounds

\* Largest percent handed to the classifier alone (above 100 on purpose).
MaxPercent == 120
\* Largest number of disk partitions the provider lists.
MaxParts == 2
\* Number of collect_all_metrics calls a client of the class makes.
MaxCollects == 2

\* ------------------------------------------------------ OrderedDict, lists

\* collections.OrderedDict: the keys in insertion order, and the values.
EmptyDict == [order |-> <<>>, val |-> [k \in {} |-> k]]

HasKey(d, k) == k \in DOMAIN d.val

\* d[k] = v: a new key goes last, an existing key keeps its place.
SetItem(d, k, v) ==
  [order |-> IF HasKey(d, k) THEN d.order ELSE Append(d.order, k),
   val   |-> [x \in (DOMAIN d.val) \cup {k} |-> IF x = k THEN v ELSE d.val[x]]]

\* "x in list".
InList(x, s) == \E i \in 1..Len(s) : s[i] = x

RECURSIVE Flatten(_)
Flatten(ss) == IF ss = <<>> THEN <<>> ELSE Head(ss) \o Flatten(Tail(ss))

\* ------------------------------------------------------------- classifier

\* _get_status with the cutoffs swapped into the milder tier at the boundary.
GetStatusStrict(percent) ==
  IF percent <= 60 THEN "HEALTHY"
  ELSE IF percent <= 80 THEN "WARNING"
  ELSE "CRITICAL"

\* SystemHealthChecker._get_status
GetStatus(percent) ==
  IF percent < 60 THEN "HEALTHY"
  ELSE IF percent < 80 THEN "WARNING"
  ELSE "CRITICAL"

\* ------------------------------------------------- results and exceptions

\* A call either returns a value or raises; msg is str(e) of what it raised.
Ok(v) == [exc |-> "none", msg |-> "", value |-> v]
Raise(e, m, v) == [exc |-> e, msg |-> m, value |-> v]

\* ------------------------------------------------------ subsystem getters

\* datetime.isoformat(): the instant as text.
IsoFormat(t) == ToString(t)

\* get_system_info: the platform's answers, as a dict.
GetSystemInfo(host) == [hostname |-> host, platform |-> "Linux"]

\* get_cpu_info: three separate cpu_percent samples (per core, total, and the
\* one the status is classified from).
GetCpuInfo(core, total, stat) ==
  [cpu_percent_total    |-> total,
   cpu_percent_per_core |-> core,
   status               |-> GetStatus(stat)]

\* get_memory_info
GetMemoryInfo(mem) == [percent_used |-> mem, status |-> GetStatus(mem)]

\* One dict of disk_data.
DiskEntry(part) ==
  [mountpoint   |-> part.mountpoint,
   percent_used |-> part.percent,
   status       |-> GetStatus(part.percent)]

\* The loop of get_disk_info: a PermissionError skips the partition, any other
\* exception of disk_usage leaves the loop and the method.
RECURSIVE DiskLoop(_, _)
DiskLoop(partitions, disk_data) ==
  IF partitions = <<>> THEN Ok(disk_data)
  ELSE LET partition == Head(partitions) IN
       IF partition.err = "none"
         THEN DiskLoop(Tail(partitions), Append(disk_data, DiskEntry(partition)))
       ELSE IF partition.err = "PermissionError"
         THEN DiskLoop(Tail(partitions), disk_data)
       ELSE Raise(partition.err, partition.mountpoint, <<>>)

\* get_disk_info leaving the loop at the first PermissionError.
GetDiskInfoBreak(partitions) ==
  LET bad == {i \in 1..Len(partitions) : partitions[i].err = "PermissionError"}
      cut == IF bad = {} THEN Len(partitions)
             ELSE (CHOOSE i \in bad : \A j \in bad : i <= j) - 1
  IN  DiskLoop(SubSeq(partitions, 1, cut), <<>>)

\* get_disk_info keeping a placeholder entry for a partition it may not read.
GetDiskInfoNoting(partitions) ==
  IF \E i \in 1..Len(partitions) : partitions[i].err \notin {"none", "PermissionError"}
    THEN DiskLoop(partitions, <<>>)
  ELSE Ok([i \in 1..Len(partitions) |->
             IF partitions[i].err = "none" THEN DiskEntry(partitions[i])
             ELSE [mountpoint   |-> partitions[i].mountpoint,
                   percent_used |-> 0,
                   status       |-> "SKIPPED"]])

\* SystemHealthChecker.get_disk_info
GetDiskInfo(partitions) == DiskLoop(partitions, <<>>)

\* get_network_info
GetNetworkInfo(net) == [errors_in |-> net.errin, errors_out |-> net.errout]

\* round(x, 2) of a percentage given in thousandths; the result is in hundredths.
Round2(m) ==
  LET q == m \div 10
      r == m % 10
  IN  IF r < 5 THEN q
      ELSE IF r > 5 THEN q + 1
      ELSE IF q % 2 = 0 THEN q ELSE q + 1

\* The slice [:5] of get_process_info.
TopK == 5

\* key=lambda p: p.info["cpu_percent"] or 0 (a denied process has None).
CpuKey(proc) == IF proc.denied THEN 0 ELSE proc.cpu

\* sorted(..., reverse=True) is stable: equal keys keep the iteration order.
RECURSIVE InsertDesc(_, _)
InsertDesc(x, s) ==
  IF s = <<>> THEN <<x>>
  ELSE IF CpuKey(Head(s)) >= CpuKey(x) THEN <<Head(s)>> \o InsertDesc(x, Tail(s))
  ELSE <<x>> \o s

RECURSIVE SortDesc(_)
SortDesc(s) ==
  IF s = <<>> THEN <<>>
  ELSE InsertDesc(s[Len(s)], SortDesc(SubSeq(s, 1, Len(s) - 1)))

\* The loop body of get_process_info: the dict literal reads proc.info only, so
\* NoSuchProcess and AccessDenied cannot come out of it; round(None, 2) is a
\* TypeError, which the except clause does not name.
RECURSIVE ProcLoop(_, _)
ProcLoop(procs, processes) ==
  IF procs = <<>> THEN Ok(processes)
  ELSE LET proc == Head(procs) IN
       IF proc.denied
         THEN Raise("TypeError", "NoneType", <<>>)
       ELSE ProcLoop(Tail(procs),
                     Append(processes, [pid            |-> proc.pid,
                                        cpu_percent    |-> proc.cpu,
                                        memory_percent |-> Round2(proc.mem)]))

\* get_process_info
GetProcessInfo(table) ==
  LET sorted == SortDesc(table)
      top    == SubSeq(sorted, 1, IF Len(sorted) < TopK THEN Len(sorted) ELSE TopK)
      loop   == ProcLoop(top, <<>>)
  IN  IF loop.exc # "none" THEN Raise(loop.exc, loop.msg, [total_processes |-> 0,
                                                           top_cpu_processes |-> <<>>])
      ELSE Ok([total_processes |-> Len(table), top_cpu_processes |-> loop.value])

\* ------------------------------------------------------------- aggregation

\* The reduction of get_overall_health over a list of statuses.
Worst(statuses) ==
  IF InList("CRITICAL", statuses) THEN "CRITICAL"
  ELSE IF InList("WARNING", statuses) THEN "WARNING"
  ELSE "HEALTHY"

\* get_overall_health looking at the first partition only.
GetOverallHealthFirstDisk(d) ==
  IF ~HasKey(d, "cpu") THEN Raise("KeyError", "cpu", "")
  ELSE IF ~HasKey(d, "memory") THEN Raise("KeyError", "memory", "")
  ELSE IF ~HasKey(d, "disk") THEN Raise("KeyError", "disk", "")
  ELSE Ok(Worst(<<d.val["cpu"].status, d.val["memory"].status,
                  IF d.val["disk"] = <<>> THEN "HEALTHY"
                  ELSE d.val["disk"][1].status>>))

\* get_overall_health taking an empty disk list for a WARNING.
GetOverallHealthEmptyWarns(d) ==
  IF ~HasKey(d, "cpu") THEN Raise("KeyError", "cpu", "")
  ELSE IF ~HasKey(d, "memory") THEN Raise("KeyError", "memory", "")
  ELSE IF ~HasKey(d, "disk") THEN Raise("KeyError", "disk", "")
  ELSE Ok(Worst(<<d.val["cpu"].status, d.val["memory"].status,
                  IF d.val["disk"] = <<>> THEN "WARNING"
                  ELSE Worst([i \in 1..Len(d.val["disk"]) |->
                                d.val["disk"][i].status])>>))

\* get_overall_health reading the blocks with dict.get and a HEALTHY default.
GetOverallHealthLenient(d) ==
  Ok(Worst(<<IF HasKey(d, "cpu") THEN d.val["cpu"].status ELSE "HEALTHY",
             IF HasKey(d, "memory") THEN d.val["memory"].status ELSE "HEALTHY",
             IF HasKey(d, "disk")
               THEN Worst([i \in 1..Len(d.val["disk"]) |-> d.val["disk"][i].status])
               ELSE "HEALTHY">>))

\* get_overall_health taking network errors for at least a WARNING.
GetOverallHealthNetAware(d) ==
  IF ~HasKey(d, "cpu") THEN Raise("KeyError", "cpu", "")
  ELSE IF ~HasKey(d, "memory") THEN Raise("KeyError", "memory", "")
  ELSE IF ~HasKey(d, "disk") THEN Raise("KeyError", "disk", "")
  ELSE Ok(Worst(<<d.val["cpu"].status, d.val["memory"].status,
                  Worst([i \in 1..Len(d.val["disk"]) |-> d.val["disk"][i].status]),
                  IF HasKey(d, "network") /\ d.val["network"].errors_in > 0
                    THEN "WARNING" ELSE "HEALTHY">>))

\* SystemHealthChecker.get_overall_health on health_data d: the subscripts
\* d["cpu"], d["memory"], d["disk"] raise KeyError in that order.
GetOverallHealth(d) ==
  IF ~HasKey(d, "cpu") THEN Raise("KeyError", "cpu", "")
  ELSE IF ~HasKey(d, "memory") THEN Raise("KeyError", "memory", "")
  ELSE IF ~HasKey(d, "disk") THEN Raise("KeyError", "disk", "")
  ELSE LET cpu_status        == d.val["cpu"].status
           memory_status     == d.val["memory"].status
           disk_statuses     == [i \in 1..Len(d.val["disk"]) |-> d.val["disk"][i].status]
           worst_disk_status == Worst(disk_statuses)
       IN  Ok(Worst(<<cpu_status, memory_status, worst_disk_status>>))

\* -------------------------------------------------------------- collection

\* The keys collect_all_metrics assigns, in statement order.
CollectOrder ==
  <<"timestamp", "system", "cpu", "memory", "disk", "network", "processes",
    "overall_health">>

\* What the k-th assignment of collect_all_metrics evaluates, on health_data d.
StepValue(k, d, ts, in) ==
  CASE k = 1 -> Ok(IsoFormat(ts))
    [] k = 2 -> Ok(GetSystemInfo(in.host))
    [] k = 3 -> Ok(GetCpuInfo(in.core, in.total, in.stat))
    [] k = 4 -> Ok(GetMemoryInfo(in.mem))
    [] k = 5 -> GetDiskInfo(in.parts)
    [] k = 6 -> Ok(GetNetworkInfo(in.net))
    [] k = 7 -> GetProcessInfo(in.procs)
    [] k = 8 -> GetOverallHealth(d)

\* The assignments from the k-th on. in.intr = k is a KeyboardInterrupt while
\* the k-th right-hand side is evaluated (0: none). A statement that raises
\* assigns nothing and the later ones do not run.
RECURSIVE CollectFrom(_, _, _, _)
CollectFrom(k, d, ts, in) ==
  IF k > Len(CollectOrder) THEN [hd |-> d, exc |-> "none", msg |-> "", steps |-> k - 1]
  ELSE IF in.intr = k
    THEN [hd |-> d, exc |-> "KeyboardInterrupt", msg |-> "", steps |-> k - 1]
  ELSE LET r == StepValue(k, d, ts, in) IN
       IF r.exc # "none"
         THEN [hd |-> d, exc |-> r.exc, msg |-> r.msg, steps |-> k - 1]
       ELSE CollectFrom(k + 1, SetItem(d, CollectOrder[k], r.value), ts, in)

\* collect_all_metrics stamping the report with the time of the call.
CollectAllMetricsStamped(d, ts, now, in) ==
  LET c == CollectFrom(1, d, now, in) IN
  [hd |-> c.hd, exc |-> c.exc, msg |-> c.msg, steps |-> c.steps,
   out |-> << <<"Collecting system health metrics...">> >>]

\* collect_all_metrics catching what a statement raises and returning the
\* fields assigned so far.
CollectAllMetricsSwallowing(d, ts, now, in) ==
  LET c == CollectFrom(1, d, ts, in) IN
  [hd |-> c.hd, exc |-> "none", msg |-> "", steps |-> c.steps,
   out |-> << <<"Collecting system health metrics...">> >>]

\* SystemHealthChecker.collect_all_metrics on health_data d of a checker
\* constructed at ts, called at now: the new health_data (the same object,
\* which is also what the call returns), what it raised, what it printed.
CollectAllMetrics(d, ts, now, in) ==
  LET c == CollectFrom(1, d, ts, in) IN
  [hd |-> c.hd, exc |-> c.exc, msg |-> c.msg, steps |-> c.steps,
   out |-> << <<"Collecting system health metrics...">> >>]

\* ---------------------------------------------------------- console report

\* The keys print_report subscripts data with, in the order it does.
PrintOrder ==
  <<"timestamp", "overall_health", "system", "cpu", "memory", "disk", "network",
    "processes">>

Rule == <<"--------">>
Banner == <<"========">>

\* The lines printed before data[k] is first read.
PrintPre(k) ==
  CASE k = "timestamp"      -> <<Banner>>
    [] k = "overall_health" -> <<>>
    [] k = "system"         -> <<Rule, <<"SYSTEM INFORMATION">>, Rule>>
    [] k = "disk"           -> <<Rule, <<"DISK USAGE">>, Rule>>
    [] k = "network"        -> <<Rule, <<"NETWORK">>, Rule>>
    [] k = "processes"      -> <<Rule, <<"TOP CPU CONSUMING PROCESSES">>, Rule>>
    [] OTHER                -> <<Rule>>

\* The lines printed from data[k] = v.
PrintBody(k, v) ==
  CASE k = "timestamp"      -> << <<"SYSTEM HEALTH REPORT - ", v>>, Banner >>
    [] k = "overall_health" -> << <<"OVERALL HEALTH: ", v>> >>
    [] k = "system"         -> << <<"Hostname: ", v.hostname>>,
                                  <<"Platform: ", v.platform>> >>
    [] k = "cpu"            -> << <<"CPU - ", v.status>>, Rule,
                                  <<"Total Usage: ", ToString(v.cpu_percent_total), "%">> >>
    [] k = "memory"         -> << <<"MEMORY - ", v.status>>, Rule,
                                  <<"Used: ", ToString(v.percent_used), "%">> >>
    [] k = "disk"           -> [i \in 1..Len(v) |->
                                  <<v[i].mountpoint, " - ", v[i].status,
                                    "Used: ", ToString(v[i].percent_used), "%">>]
    [] k = "network"        -> << <<"Errors In: ", ToString(v.errors_in)>>,
                                  <<"Errors Out: ", ToString(v.errors_out)>> >>
    [] k = "processes"      -> [i \in 1..Len(v.top_cpu_processes) |->
                                  <<"PID: ", ToString(v.top_cpu_processes[i].pid),
                                    "CPU: ", ToString(v.top_cpu_processes[i].cpu_percent),
                                    "MEM: ", ToString(v.top_cpu_processes[i].memory_percent)>>]

RECURSIVE PrintFrom(_, _)
PrintFrom(i, d) ==
  IF i > Len(PrintOrder) THEN Ok(<<Banner>>)
  ELSE LET k == PrintOrder[i] IN
       IF ~HasKey(d, k) THEN Raise("KeyError", k, PrintPre(k))
       ELSE LET rest == PrintFrom(i + 1, d) IN
            [rest EXCEPT !.value = PrintPre(k) \o PrintBody(k, d.val[k]) \o @]

\* SystemHealthChecker.print_report on health_data d: the lines printed (value)
\* and the KeyError of the first missing key, which ends the output there.
PrintReport(d) == PrintFrom(1, d)

\* ------------------------------------------------------------------ export

\* json.dump of data[k] = v: the tokens of the value, in the dict's own order.
JsonValue(k, v) ==
  CASE k = "timestamp"      -> <<"\"", v, "\"">>
    [] k = "overall_health" -> <<"\"", v, "\"">>
    [] k = "system"         -> <<"{", "hostname", ":", v.hostname, ",",
                                 "platform", ":", v.platform, "}">>
    [] k = "cpu"            -> <<"{", "cpu_percent_total", ":", ToString(v.cpu_percent_total), ",",
                                 "cpu_percent_per_core", ":", "[">>
                               \o [i \in 1..Len(v.cpu_percent_per_core) |->
                                     ToString(v.cpu_percent_per_core[i])]
                               \o <<"]", ",", "status", ":", v.status, "}">>
    [] k = "memory"         -> <<"{", "percent_used", ":", ToString(v.percent_used), ",",
                                 "status", ":", v.status, "}">>
    [] k = "disk"           -> <<"[">>
                               \o Flatten([i \in 1..Len(v) |->
                                    <<"{", "mountpoint", ":", v[i].mountpoint, ",",
                                      "percent_used", ":", ToString(v[i].percent_used), ",",
                                      "status", ":", v[i].status, "}">>])
                               \o <<"]">>
    [] k = "network"        -> <<"{", "errors_in", ":", ToString(v.errors_in), ",",
                                 "errors_out", ":", ToString(v.errors_out), "}">>
    [] k = "processes"      -> <<"{", "total_processes", ":", ToString(v.total_processes), ",",
                                 "top_cpu_processes", ":", "[">>
                               \o Flatten([i \in 1..Len(v.top_cpu_processes) |->
                                    <<"{", "pid", ":", ToString(v.top_cpu_processes[i].pid), ",",
                                      "cpu_percent", ":",
                                      ToString(v.top_cpu_processes[i].cpu_percent), ",",
                                      "memory_percent", ":",
                                      ToString(v.top_cpu_processes[i].memory_percent), "}">>])
                               \o <<"]", "}">>

\* json.dump with sort_keys=True: the members in alphabetical order.
JsonDumpSorted(d) ==
  LET keys == SelectSeq(<<"cpu", "disk", "memory", "network", "overall_health",
                          "processes", "system", "timestamp">>,
                        LAMBDA k : HasKey(d, k))
  IN  [i \in 1..Len(keys) |-> [key |-> keys[i], json |-> JsonValue(keys[i], d.val[keys[i]])]]

\* json.dump(self.health_data, f, indent=2): the members in the dict's
\* iteration order, each a key and the tokens of its value.
JsonDump(d) ==
  [i \in 1..Len(d.order) |->
     [key |-> d.order[i], json |-> JsonValue(d.order[i], d.val[d.order[i]])]]

\* export_to_json that empties health_data when the file cannot be opened.
ExportToJsonDiscarding(d, f, writable) ==
  IF ~writable
    THEN [hd |-> EmptyDict, file |-> f, exc |-> "IOError",
          msg |-> "Permission denied", out |-> <<>>]
  ELSE [hd |-> d, file |-> [exists |-> TRUE, body |-> JsonDump(d)], exc |-> "none",
        msg |-> "", out |-> << <<"Health report exported to: ", "system_health_report.json">> >>]

\* SystemHealthChecker.export_to_json on health_data d and the file f:
\* open(filename, "w") raises an OSError (IOError) when the destination is not
\* writable, before anything is written; otherwise the file holds the dump.
ExportToJson(d, f, writable) ==
  IF ~writable
    THEN [hd |-> d, file |-> f, exc |-> "IOError", msg |-> "Permission denied", out |-> <<>>]
  ELSE [hd |-> d, file |-> [exists |-> TRUE, body |-> JsonDump(d)], exc |-> "none",
        msg |-> "", out |-> << <<"Health report exported to: ", "system_health_report.json">> >>]

\* ----------------------------------------------------------- main, guard

\* The alert of main ending the process with sys.exit on a CRITICAL status.
AlertExiting(d) ==
  IF ~HasKey(d, "overall_health") THEN Raise("KeyError", "overall_health", <<>>)
  ELSE IF d.val["overall_health"] = "CRITICAL"
    THEN Raise("SystemExit", "2",
               << <<"[ALERT] System is in CRITICAL state! Immediate attention required.">> >>)
  ELSE IF d.val["overall_health"] = "WARNING"
    THEN Ok(<< <<"[WARNING] System resources are running high. Monitor closely.">> >>)
  ELSE Ok(<< <<"[OK] System is healthy.">> >>)

\* The alert of main, from health_data d.
Alert(d) ==
  IF ~HasKey(d, "overall_health") THEN Raise("KeyError", "overall_health", <<>>)
  ELSE IF d.val["overall_health"] = "CRITICAL"
    THEN Ok(<< <<"[ALERT] System is in CRITICAL state! Immediate attention required.">> >>)
  ELSE IF d.val["overall_health"] = "WARNING"
    THEN Ok(<< <<"[WARNING] System resources are running high. Monitor closely.">> >>)
  ELSE Ok(<< <<"[OK] System is healthy.">> >>)

\* The except clauses around main(): what they print for an exception.
Guard(exc, msg) ==
  IF exc = "KeyboardInterrupt" THEN << <<"Health check interrupted by user.">> >>
  ELSE << <<"Error during health check: ", msg>> >>

\* ------------------------------------------------------------ environment

\* Percentages the provider reports to a run of main: one below the warning
\* cutoff and the two cutoffs themselves.
Samples == {59, 60, 80}
\* Percentages the provider reports to a client of the class.
ApiSamples == {59, 80}

Mounts == <<"/", "/home", "/var", "/data">>

\* disk_usage of one partition: a percentage, or the exception it raises.
PartOutcomes(S) ==
  {[err |-> "none", percent |-> p] : p \in S}
    \cup {[err |-> e, percent |-> 0] : e \in {"PermissionError", "OSError"}}

\* disk_partitions with disk_usage of each, for up to n partitions.
PartLists(n, S) ==
  UNION {{[i \in 1..k |-> [mountpoint |-> Mounts[i], err |-> f[i].err,
                           percent |-> f[i].percent]] : f \in [1..k -> PartOutcomes(S)]}
         : k \in 0..n}

Nets == {[errin |-> 0, errout |-> 0], [errin |-> 3, errout |-> 1]}

Proc(pid, denied, cpu, mem) == [pid |-> pid, denied |-> denied, cpu |-> cpu, mem |-> mem]

\* Process tables: two processes; six processes (one more than the slice
\* keeps); six with a denied one sorted past the slice; two with a denied one.
ProcsTwo == <<Proc(1, FALSE, 0, 1234), Proc(2, FALSE, 7, 2505)>>
ProcsSix ==
  <<Proc(1, FALSE, 3, 1000), Proc(2, FALSE, 9, 2000), Proc(3, FALSE, 1, 3000),
    Proc(4, FALSE, 5, 4015), Proc(5, FALSE, 2, 5000), Proc(6, FALSE, 7, 6000)>>
ProcsSixDeniedLast ==
  <<Proc(1, FALSE, 3, 1000), Proc(2, FALSE, 9, 2000), Proc(3, TRUE, 0, 0),
    Proc(4, FALSE, 5, 4015), Proc(5, FALSE, 2, 5000), Proc(6, FALSE, 7, 6000)>>
ProcsDenied == <<Proc(1, FALSE, 4, 1234), Proc(2, TRUE, 0, 0)>>

ProcTables == {ProcsTwo, ProcsSix, ProcsSixDeniedLast, ProcsDenied}

Cores == {<<10, 90>>}
Hosts == {"web-01"}

NoEnv ==
  [host |-> "", core |-> <<>>, total |-> 0, stat |-> 0, mem |-> 0, parts |-> <<>>,
   net |-> [errin |-> 0, errout |-> 0], procs |-> <<>>, intr |-> 0]

\* What the provider answers during one run of main's collect_all_metrics,
\* with a KeyboardInterrupt in statement k (0: none): the statements from k on
\* ask the provider nothing.
InputsUpTo(k) ==
  LET runs(n) == k = 0 \/ k > n IN
  [host  : IF runs(2) THEN Hosts ELSE {NoEnv.host},
   core  : IF runs(3) THEN Cores ELSE {NoEnv.core},
   total : IF runs(3) THEN Samples ELSE {NoEnv.total},
   stat  : IF runs(3) THEN Samples ELSE {NoEnv.stat},
   mem   : IF runs(4) THEN Samples ELSE {NoEnv.mem},
   parts : IF runs(5) THEN PartLists(MaxParts, Samples) ELSE {NoEnv.parts},
   net   : IF runs(6) THEN Nets ELSE {NoEnv.net},
   procs : IF runs(7) THEN ProcTables ELSE {NoEnv.procs},
   intr  : {k}]

MainInputs == UNION {InputsUpTo(k) : k \in 0..Len(CollectOrder)}

\* What the provider answers to a client's collect_all_metrics call.
ApiInputs ==
  [host : Hosts, core : Cores, total : ApiSamples, stat : ApiSamples, mem : ApiSamples,
   parts : PartLists(1, {80}), net : {[errin |-> 0, errout |-> 0]},
   procs : {ProcsTwo}, intr : {0}]

\* ------------------------------------------------------------------- state

VARIABLES
  pc,           \* where main is ("api": the class is driven by a client)
  health_data,  \* self.health_data, the checker's OrderedDict
  timestamp,    \* self.timestamp
  clock,        \* the time, in collection passes
  file,         \* system_health_report.json
  stdout,       \* main: all that was printed; client: what the last call printed
  op,           \* the last method called
  arg,          \* the percent handed to _get_status
  ret,          \* what the last call returned or raised
  env           \* what the provider answered during the last collection

vars == <<pc, health_data, timestamp, clock, file, stdout, op, arg, ret, env>>

NoFile == [exists |-> FALSE, body |-> <<>>]

\* SystemHealthChecker.__init__
Construct ==
  /\ health_data = EmptyDict
  /\ timestamp = 0
  /\ clock = 0
  /\ file = NoFile
  /\ stdout = <<>>
  /\ op = "__init__"
  /\ arg = 0
  /\ ret = Ok("None")
  /\ env = NoEnv

\* The provider's answers a collection got as far as asking for: r.steps
\* statements completed, and the next one asked too when it is what raised.
Asked(in, r) ==
  LET n == IF r.exc \in {"none", "KeyboardInterrupt"} THEN r.steps ELSE r.steps + 1 IN
  [host  |-> IF n >= 2 THEN in.host ELSE NoEnv.host,
   core  |-> IF n >= 3 THEN in.core ELSE NoEnv.core,
   total |-> IF n >= 3 THEN in.total ELSE NoEnv.total,
   stat  |-> IF n >= 3 THEN in.stat ELSE NoEnv.stat,
   mem   |-> IF n >= 4 THEN in.mem ELSE NoEnv.mem,
   parts |-> IF n >= 5 THEN in.parts ELSE NoEnv.parts,
   net   |-> IF n >= 6 THEN in.net ELSE NoEnv.net,
   procs |-> IF n >= 7 THEN in.procs ELSE NoEnv.procs,
   intr  |-> in.intr]

Returned(r, v) == IF r.exc = "none" THEN Ok(v) ELSE Raise(r.exc, r.msg, "")

\* ------------------------------------------------- a client of the class

Init == pc = "api" /\ Construct

\* checker.collect_all_metrics()
CallCollect ==
  /\ pc = "api"
  /\ clock < MaxCollects
  /\ \E in \in ApiInputs :
       LET r == CollectAllMetrics(health_data, timestamp, clock, in) IN
       /\ health_data' = r.hd
       /\ stdout' = r.out
       /\ ret' = Returned(r, "self.health_data")
       /\ env' = Asked(in, r)
  /\ clock' = clock + 1
  /\ op' = "collect_all_metrics"
  /\ UNCHANGED <<pc, timestamp, file, arg>>

\* checker.get_overall_health()
CallGetOverallHealth ==
  /\ pc = "api"
  /\ ret' = GetOverallHealth(health_data)
  /\ stdout' = <<>>
  /\ op' = "get_overall_health"
  /\ UNCHANGED <<pc, health_data, timestamp, clock, file, arg, env>>

\* checker.print_report()
CallPrintReport ==
  /\ pc = "api"
  /\ LET r == PrintReport(health_data) IN
       /\ stdout' = r.value
       /\ ret' = Returned(r, "None")
  /\ op' = "print_report"
  /\ UNCHANGED <<pc, health_data, timestamp, clock, file, arg, env>>

\* checker.export_to_json(), the destination writable or not
CallExport ==
  /\ pc = "api"
  /\ \E writable \in BOOLEAN :
       LET r == ExportToJson(health_data, file, writable) IN
       /\ health_data' = r.hd
       /\ file' = r.file
       /\ stdout' = r.out
       /\ ret' = Returned(r, "None")
  /\ op' = "export_to_json"
  /\ UNCHANGED <<pc, timestamp, clock, arg, env>>

Next == CallCollect \/ CallGetOverallHealth \/ CallPrintReport \/ CallExport

Spec == Init /\ [][Next]_vars

\* ------------------------------------------------------- the script's run

MainInit == pc = "collect" /\ Construct

\* An exception leaves main(): the guard prints its line and the run ends.
Leave(exc, msg, printed) ==
  /\ stdout' = stdout \o printed \o Guard(exc, msg)
  /\ pc' = "done"

\* main: checker.collect_all_metrics()
MainCollect ==
  /\ pc = "collect"
  /\ \E in \in MainInputs :
       LET r == CollectAllMetrics(health_data, timestamp, clock, in) IN
       /\ health_data' = r.hd
       /\ ret' = Returned(r, "self.health_data")
       /\ env' = Asked(in, r)
       /\ clock' = IF r.steps >= 3 THEN clock + 1 ELSE clock
       /\ IF r.exc = "none"
            THEN stdout' = stdout \o r.out /\ pc' = "print"
            ELSE Leave(r.exc, r.msg, r.out)
  /\ op' = "collect_all_metrics"
  /\ UNCHANGED <<timestamp, file, arg>>

\* main: checker.print_report()
MainPrint ==
  /\ pc = "print"
  /\ LET r == PrintReport(health_data) IN
       /\ ret' = Returned(r, "None")
       /\ IF r.exc = "none"
            THEN stdout' = stdout \o r.value /\ pc' = "export"
            ELSE Leave(r.exc, r.msg, r.value)
  /\ op' = "print_report"
  /\ UNCHANGED <<health_data, timestamp, clock, file, arg, env>>

\* main: checker.export_to_json()
MainExport ==
  /\ pc = "export"
  /\ \E writable \in BOOLEAN :
       LET r == ExportToJson(health_data, file, writable) IN
       /\ health_data' = r.hd
       /\ file' = r.file
       /\ ret' = Returned(r, "None")
       /\ IF r.exc = "none"
            THEN stdout' = stdout \o r.out /\ pc' = "alert"
            ELSE Leave(r.exc, r.msg, r.out)
  /\ op' = "export_to_json"
  /\ UNCHANGED <<timestamp, clock, arg, env>>

\* main: the alert on the overall status
MainAlert ==
  /\ pc = "alert"
  /\ LET r == Alert(health_data) IN
       /\ ret' = Returned(r, "None")
       /\ IF r.exc = "none"
            THEN stdout' = stdout \o r.value /\ pc' = "done"
            ELSE Leave(r.exc, r.msg, r.value)
  /\ op' = "alert"
  /\ UNCHANGED <<health_data, timestamp, clock, file, arg, env>>

\* Ctrl-C between two statements of main, after the collection.
MainInterrupt ==
  /\ pc \in {"print", "export", "alert"}
  /\ ret' = Raise("KeyboardInterrupt", "", "")
  /\ Leave("KeyboardInterrupt", "", <<>>)
  /\ UNCHANGED <<health_data, timestamp, clock, file, op, arg, env>>

MainNext == MainCollect \/ MainPrint \/ MainExport \/ MainAlert \/ MainInterrupt

MainSpec == MainInit /\ [][MainNext]_vars

\* ------------------------------------------------- the classifier by itself

\* checker._get_status(p)
CallGetStatus ==
  /\ pc = "api"
  /\ \E p \in 0..MaxPercent :
       /\ arg' = p
       /\ ret' = Ok(GetStatus(p))
  /\ stdout' = <<>>
  /\ op' = "_get_status"
  /\ UNCHANGED <<pc, health_data, timestamp, clock, file, env>>

StatusSpec == Init /\ [][CallGetStatus]_vars

\* ------------------------------------------------------------- properties

Rank(s) == CASE s = "HEALTHY" -> 0 [] s = "WARNING" -> 1 [] s = "CRITICAL" -> 2

Block(k) == health_data.val[k]

\* The statuses the aggregation reads from health_data.
ReadStatuses ==
  {Block("cpu").status, Block("memory").status}
    \cup {Block("disk")[i].status : i \in 1..Len(Block("disk"))}

\* The run's collection got past get_disk_info without a KeyboardInterrupt.
DiskAsked == pc # "collect" /\ env.intr \notin 1..5

Readable(parts) == SelectSeq(parts, LAMBDA q : q.err = "none")
Dropped(parts) == {i \in 1..Len(parts) : parts[i].err = "PermissionError"}
Unreadable(parts) == {i \in 1..Len(parts) : parts[i].err # "none"}

\* C1: with the cutoffs 60 and 80, _get_status returns HEALTHY below 60,
\* WARNING from 60 to below 80 and CRITICAL from 80 on (also above 100): always
\* one of the three, each cutoff in the more severe tier.
C1_Classifier ==
  op = "_get_status" =>
    /\ ret.exc = "none"
    /\ ret.value \in {"HEALTHY", "WARNING", "CRITICAL"}
    /\ (arg < 60 <=> ret.value = "HEALTHY")
    /\ (arg >= 60 /\ arg < 80 <=> ret.value = "WARNING")
    /\ (arg >= 80 <=> ret.value = "CRITICAL")

C1_Witness == op = "_get_status" /\ arg = 80 /\ ret.value = "CRITICAL"

\* C2: with a non-empty disk list, the overall status is the maximum of the cpu
\* status, the memory status and the partitions' statuses under
\* HEALTHY < WARNING < CRITICAL, whatever the order of the partitions.
C2_OverallIsMax ==
  (HasKey(health_data, "overall_health") /\ Block("disk") # <<>>) =>
    /\ Block("overall_health") \in ReadStatuses
    /\ \A s \in ReadStatuses : Rank(s) <= Rank(Block("overall_health"))

C2_Witness ==
  /\ HasKey(health_data, "overall_health")
  /\ Len(Block("disk")) = 2
  /\ Block("disk")[1].status = "HEALTHY"
  /\ Block("disk")[2].status = "CRITICAL"
  /\ Block("cpu").status = "HEALTHY"
  /\ Block("memory").status = "HEALTHY"
  /\ Block("overall_health") = "CRITICAL"

\* C3: get_overall_health on a checker whose health_data holds no cpu, memory
\* or disk entry raises (a KeyError) instead of returning a status; it records
\* no overall_health, prints nothing and writes no file.
C3_EmptyAggregationFails ==
  [][(/\ op' = "get_overall_health"
      /\ ~HasKey(health_data, "cpu")
      /\ ~HasKey(health_data, "memory")
      /\ ~HasKey(health_data, "disk"))
     => /\ ret'.exc = "KeyError"
        /\ ret'.value \notin {"HEALTHY", "WARNING", "CRITICAL"}
        /\ health_data' = health_data
        /\ ~HasKey(health_data', "overall_health")
        /\ stdout' = <<>>
        /\ file' = file]_vars

C3_Witness ==
  /\ op = "get_overall_health"
  /\ health_data = EmptyDict
  /\ ret.exc = "KeyError"
  /\ file = NoFile

\* C4: when every partition is dropped and the disk list is empty, the overall
\* status is the worse of the cpu and memory statuses.
C4_EmptyDiskNeutral ==
  (HasKey(health_data, "overall_health") /\ Block("disk") = <<>>) =>
    /\ Block("overall_health") \in {Block("cpu").status, Block("memory").status}
    /\ Rank(Block("overall_health")) >= Rank(Block("cpu").status)
    /\ Rank(Block("overall_health")) >= Rank(Block("memory").status)

C4_Witness ==
  /\ HasKey(health_data, "overall_health")
  /\ Len(env.parts) = 2
  /\ Dropped(env.parts) = {1, 2}
  /\ Block("disk") = <<>>
  /\ Block("cpu").status = "WARNING"
  /\ Block("memory").status = "HEALTHY"
  /\ Block("overall_health") = "WARNING"

DiskDone == DiskAsked /\ HasKey(health_data, "disk")

\* The dropped partitions the run left a record of: an entry of the disk list
\* or a printed line naming the mountpoint.
SkipDiagnosed ==
  {i \in Dropped(env.parts) :
     \/ \E j \in 1..Len(Block("disk")) :
          Block("disk")[j].mountpoint = env.parts[i].mountpoint
     \/ \E j \in 1..Len(stdout) : InList(env.parts[i].mountpoint, stdout[j])}

\* C6, as claimed: every dropped partition is recorded as a skip diagnostic,
\* as many diagnostics as dropped items.
C6_SkipsRecorded ==
  DiskDone => Cardinality(SkipDiagnosed) = Cardinality(Dropped(env.parts))

\* C6, amended: a partition dropped for a PermissionError is left out without
\* any record: the disk list holds the readable partitions only, the report
\* has no block besides the eight of collect_all_metrics, and nothing printed
\* names the dropped mountpoint.
C6_SkipsSilent ==
  DiskDone =>
    /\ SkipDiagnosed = {}
    /\ Len(Block("disk")) = Len(env.parts) - Cardinality(Dropped(env.parts))
    /\ DOMAIN health_data.val \subseteq
         {"timestamp", "system", "cpu", "memory", "disk", "network", "processes",
          "overall_health"}

C6_Witness ==
  /\ pc = "done"
  /\ op = "alert"
  /\ Len(env.parts) = 2
  /\ Dropped(env.parts) = {1}
  /\ Len(Block("disk")) = 1

\* C7, as claimed: whatever makes one partition unreadable, only that partition
\* is dropped, the others are evaluated and the collection goes on to network
\* and processes.
C7_AnyFailureLocal ==
  (/\ pc # "collect"
   /\ env.intr = 0
   /\ Unreadable(env.parts) # {}) =>
    /\ HasKey(health_data, "disk")
    /\ Len(Block("disk")) = Len(Readable(env.parts))
    /\ HasKey(health_data, "network")

\* C8, as claimed: once collect_all_metrics has returned a report, no later
\* operation on the checker changes a field of it.
C8_ReportFrozen ==
  [][(op = "collect_all_metrics" /\ ret.exc = "none") => health_data' = health_data]_vars

\* C8, amended: the report collect_all_metrics returns is the checker's own
\* health_data. get_overall_health, print_report and export_to_json leave it
\* unchanged; a later collect_all_metrics overwrites it in place: the keys
\* it held stay, in their positions, and the timestamp of a completed
\* collection is the checker's construction time, not the time of the call.
C8_OverwrittenInPlace ==
  [][/\ op' # "collect_all_metrics" => health_data' = health_data
     /\ op' = "collect_all_metrics" =>
          /\ DOMAIN health_data.val \subseteq DOMAIN health_data'.val
          /\ SubSeq(health_data'.order, 1, Len(health_data.order)) = health_data.order
          /\ ret'.exc = "none" =>
               /\ ret'.value = "self.health_data"
               /\ health_data'.val["timestamp"] = IsoFormat(timestamp)]_vars

C8_Witness ==
  /\ op = "collect_all_metrics"
  /\ ret.exc = "none"
  /\ clock = 2
  /\ clock > timestamp
  /\ Block("timestamp") = IsoFormat(0)

\* The keys of the exported members, in file order.
FileKeys == [i \in 1..Len(file.body) |-> file.body[i].key]

\* C9: once a collection has completed, the report's fields are, in order,
\* timestamp, system, cpu, memory, disk, network, processes, overall_health;
\* an export written from it has them in the same order; the overall status
\* comes last and is HEALTHY, WARNING or CRITICAL.
C9_FieldOrder ==
  /\ HasKey(health_data, "overall_health") =>
       /\ health_data.order =
            <<"timestamp", "system", "cpu", "memory", "disk", "network", "processes",
              "overall_health">>
       /\ Block("overall_health") \in {"HEALTHY", "WARNING", "CRITICAL"}
  /\ (file.exists /\ InList("overall_health", FileKeys)) =>
       /\ FileKeys =
            <<"timestamp", "system", "cpu", "memory", "disk", "network", "processes",
              "overall_health">>
       /\ file.body[Len(file.body)].json \in
            {<<"\"", s, "\"">> : s \in {"HEALTHY", "WARNING", "CRITICAL"}}

C9_Witness ==
  /\ clock = 2
  /\ op = "export_to_json"
  /\ ret.exc = "none"
  /\ file.body = JsonDump(health_data)
  /\ Len(file.body) = 8
  /\ file.body[8].key = "overall_health"

\* C10: an export to a destination that cannot be written raises an I/O error
\* to the caller, leaves health_data and the file as they were, and print_report
\* prints the same text after it as before.
C10_FailedExportHarmless ==
  [][(op' = "export_to_json" /\ ret'.exc # "none") =>
       /\ ret'.exc = "IOError"
       /\ health_data' = health_data
       /\ PrintReport(health_data') = PrintReport(health_data)
       /\ file' = file]_vars

C10_Witness ==
  /\ op = "export_to_json"
  /\ ret.exc = "IOError"
  /\ HasKey(health_data, "overall_health")
  /\ PrintReport(health_data).exc = "none"
  /\ ~file.exists

\* The printed lines that open a console report.
ReportLines == {j \in 1..Len(stdout) : stdout[j][1] = "SYSTEM HEALTH REPORT - "}

AlertTexts ==
  {"[ALERT] System is in CRITICAL state! Immediate attention required.",
   "[WARNING] System resources are running high. Monitor closely.",
   "[OK] System is healthy."}

\* The printed lines that are a final alert.
AlertLines == {j \in 1..Len(stdout) : stdout[j][1] \in AlertTexts}

\* The run's collection completed: every field is assigned, overall_health last.
Collected == pc # "collect" /\ HasKey(health_data, "overall_health")

\* C11, as claimed: a run of main whose collection completes (and which is not
\* interrupted) prints one console report, attempts one export and then prints
\* one alert line, in that order, whether the export succeeds or fails.
C11_ReportExportAlert ==
  (pc = "done" /\ Collected /\ ret.exc # "KeyboardInterrupt") =>
    /\ Cardinality(ReportLines) = 1
    /\ Cardinality(AlertLines) = 1
    /\ AlertLines = {Len(stdout)}
    /\ \A i \in ReportLines : \A j \in AlertLines : i < j
    /\ op = "alert"

\* C12: no partial report is emitted. print_report and export_to_json run only
\* on a health_data holding all eight fields, and a run whose collection fails
\* or is interrupted ends with one error or interrupt line, no console report
\* and no export file.
C12_NoPartialReport ==
  /\ (pc \in {"print", "export", "alert"} \/ op \in {"print_report", "export_to_json", "alert"}) =>
       /\ Len(health_data.order) = 8
       /\ HasKey(health_data, "overall_health")
  /\ file.exists => Len(file.body) = 8 /\ file.body[8].key = "overall_health"
  /\ ReportLines # {} => HasKey(health_data, "overall_health")
  /\ (pc # "collect" /\ ~HasKey(health_data, "overall_health")) =>
       /\ pc = "done"
       /\ ReportLines = {}
       /\ ~file.exists
       /\ Len(stdout) = 2
       /\ stdout[1] = <<"Collecting system health metrics...">>
       /\ stdout[2] = IF ret.exc = "KeyboardInterrupt"
                        THEN <<"Health check interrupted by user.">>
                        ELSE <<"Error during health check: ", ret.msg>>

C12_Witness ==
  /\ pc = "done"
  /\ ret.exc = "OSError"
  /\ HasKey(health_data, "memory")
  /\ ~HasKey(health_data, "disk")
  /\ ~file.exists
  /\ Len(stdout) = 2

\* C13, as claimed: in every report each block's status is the classification
\* of the percentage stored in the same block: cpu.status of cpu_percent_total,
\* memory.status of percent_used, each disk entry's status of its percent_used.
C13_StatusMatchesPercent ==
  /\ HasKey(health_data, "cpu") =>
       Block("cpu").status = GetStatus(Block("cpu").cpu_percent_total)
  /\ HasKey(health_data, "memory") =>
       Block("memory").status = GetStatus(Block("memory").percent_used)
  /\ HasKey(health_data, "disk") =>
       \A i \in 1..Len(Block("disk")) :
         Block("disk")[i].status = GetStatus(Block("disk")[i].percent_used)

\* C14: the alert is chosen by the overall status alone: CRITICAL gives the
\* attention-required line, WARNING the monitor line, HEALTHY the informational
\* line; exactly that one line is printed, nothing is raised (the process is
\* not ended) and the report and the file stay as they were.
C14_AlertMapping ==
  [][(pc = "alert" /\ op' = "alert") =>
       /\ ret'.exc = "none"
       /\ pc' = "done"
       /\ Len(stdout') = Len(stdout) + 1
       /\ SubSeq(stdout', 1, Len(stdout)) = stdout
       /\ stdout'[Len(stdout')] =
            CASE Block("overall_health") = "CRITICAL" ->
                   <<"[ALERT] System is in CRITICAL state! Immediate attention required.">>
              [] Block("overall_health") = "WARNING" ->
                   <<"[WARNING] System resources are running high. Monitor closely.">>
              [] Block("overall_health") = "HEALTHY" ->
                   <<"[OK] System is healthy.">>
       /\ health_data' = health_data
       /\ file' = file]_vars

C14_Witness ==
  /\ pc = "done"
  /\ op = "alert"
  /\ ret.exc = "none"
  /\ Block("overall_health") = "WARNING"
  /\ stdout[Len(stdout)] = <<"[WARNING] System resources are running high. Monitor closely.">>

\* health_data with the cpu and memory statuses c and m, and with other system
\* info, network counters and process summary.
Variant(c, m, host, net, table) ==
  LET d1 == SetItem(health_data, "cpu", [Block("cpu") EXCEPT !.status = c])
      d2 == SetItem(d1, "memory", [Block("memory") EXCEPT !.status = m])
      d3 == SetItem(d2, "system", GetSystemInfo(host))
      d4 == SetItem(d3, "network", GetNetworkInfo(net))
  IN  SetItem(d4, "processes", GetProcessInfo(table).value)

\* C15: the overall status depends on the cpu status, the memory status and the
\* partitions' statuses only: reports that agree on these and differ in system
\* info, network counters (error counts too), process count and top-5 list get
\* the same overall status; and get_overall_health leaves health_data unchanged.
C15_OnlyStatusesCount ==
  [][op' = "get_overall_health" =>
       /\ health_data' = health_data
       /\ ret'.exc = "none" =>
            /\ ret'.value = GetOverallHealth(health_data).value
            /\ \A c \in {"HEALTHY", "WARNING", "CRITICAL"} :
               \A m \in {"HEALTHY", "WARNING", "CRITICAL"} :
               LET same == GetOverallHealth(Variant(c, m, Block("system").hostname,
                                                    [errin |-> 0, errout |-> 0], ProcsTwo))
               IN  \A host \in {"web-01", "db-02"} :
                   \A net \in Nets :
                   \A table \in {ProcsTwo, ProcsSix} :
                     GetOverallHealth(Variant(c, m, host, net, table)) = same]_vars

C15_Witness ==
  /\ op = "get_overall_health"
  /\ ret.exc = "none"
  /\ ret.value = "CRITICAL"
  /\ Block("network").errors_in = 0
  /\ Len(Block("disk")) = 1

====
